---- MODULE Spec2Model ----
(***************************************************************************)
(* Model of the dashboard "My Stories" list controller                     *)
(* (assets/src/dashboard/app/views/myStories/index.js) and of the media3p  *)
(* resource adapter getResourceFromMedia3p.                                *)
(*                                                                         *)
(* The controller is a React function component.  One action of the model  *)
(* is one event (a handler call, a debounced callback, a fetch response)   *)
(* followed by the renders and effect runs it causes, up to the render in  *)
(* which no effect dependency changed any more.                            *)
(***************************************************************************)
EXTENDS Integers, Sequences, FiniteSets, TLC

(***************************************************************************)
(* Bounds of the model.                                                    *)
(***************************************************************************)
\* largest totalPages a fetch response reports
MaxTotalPages == 2
\* cap on the number of fetchStories calls of a run
MaxFetches == 4
\* how many times the scroller may call one render's handleGetData
MaxCalls == 2

(***************************************************************************)
(* Values of ../../../constants (STORY_STATUSES, STORY_SORT_OPTIONS,       *)
(* SORT_DIRECTION; VIEW_STYLE is GRID or LIST) and of the search box.      *)
(***************************************************************************)
STORY_STATUSES == <<"publish,draft", "draft">>
STORY_SORT_OPTIONS == {"LAST_MODIFIED", "NAME"}
SORT_DIRECTION == {"ASC", "DESC"}
\* search texts, as sequences of characters
SearchTexts == {<<>>, <<"a">>}
\* the JS value false, which `viewStyle === LIST && direction` yields in grid view
JsFalse == "false"
\* totalPages before any fetch result: undefined is <<>>, a number n is <<n>>
Undefined == <<>>

VARIABLES
    \* useState of MyStories
    status, typeaheadValue, viewStyle, currentPageToFetch, allPagesLoaded,
    currentStorySort, currentListSortDirection,
    \* state of ApiContext
    isLoading, storiesOrderById, totalStories, totalPages,
    \* fetchStories calls whose response has not arrived, and how many were made
    inFlight, issued,
    \* the last event handled: its kind, whether no fetch was in flight and
    \* whether isLoading was set when it came, and the number of handler calls
    lastEvent,
    \* the media record handed to getResourceFromMedia3p, the record as it was
    \* first handed over, and the outcomes of the calls made on it
    media, input, results

ctlVars == <<status, typeaheadValue, viewStyle, currentPageToFetch, allPagesLoaded,
             currentStorySort, currentListSortDirection, isLoading, storiesOrderById,
             totalStories, totalPages, inFlight, issued, lastEvent>>

mediaVars == <<media, input, results>>

vars == <<ctlVars, mediaVars>>

(***************************************************************************)
(* The component state and the context state as one record: what a render  *)
(* closes over.                                                            *)
(***************************************************************************)
Cur ==
    [status |-> status, typeaheadValue |-> typeaheadValue, viewStyle |-> viewStyle,
     currentPageToFetch |-> currentPageToFetch, allPagesLoaded |-> allPagesLoaded,
     currentStorySort |-> currentStorySort,
     currentListSortDirection |-> currentListSortDirection,
     isLoading |-> isLoading, storiesOrderById |-> storiesOrderById,
     totalStories |-> totalStories, totalPages |-> totalPages, inFlight |-> inFlight,
     issued |-> issued]

Install(s) ==
    /\ status' = s.status
    /\ typeaheadValue' = s.typeaheadValue
    /\ viewStyle' = s.viewStyle
    /\ currentPageToFetch' = s.currentPageToFetch
    /\ allPagesLoaded' = s.allPagesLoaded
    /\ currentStorySort' = s.currentStorySort
    /\ currentListSortDirection' = s.currentListSortDirection
    /\ isLoading' = s.isLoading
    /\ storiesOrderById' = s.storiesOrderById
    /\ totalStories' = s.totalStories
    /\ totalPages' = s.totalPages
    /\ inFlight' = s.inFlight
    /\ issued' = s.issued

(***************************************************************************)
(* ApiContext (apiProvider is not among the sources; from spec.md §6).     *)
(***************************************************************************)
\* fetchStories(params): the request is sent and isLoading is raised
fetchStories(s, params) ==
    [s EXCEPT !.inFlight = Append(@, params), !.issued = @ + 1, !.isLoading = TRUE]

\* clearExistingStoriesOrder(): resets storiesOrderById
clearExistingStoriesOrder(s) ==
    [s EXCEPT !.storiesOrderById = <<>>]

\* A response to request req reporting total pages tp (one story per page):
\* the story of the page, named by the request that fetched it, is added to
\* the ordering, the totals are stored and isLoading is lowered.
fetchStoriesSuccess(s, req, tp) ==
    [s EXCEPT !.storiesOrderById = IF req.page <= tp THEN Append(@, req) ELSE @,
              !.totalPages = <<tp>>,
              !.totalStories = tp,
              !.isLoading = FALSE]

(***************************************************************************)
(* The effects of MyStories.                                               *)
(***************************************************************************)
\* the sortDirection argument without the view style test
SortDirectionParamAlways(r) == r.currentListSortDirection

\* the sortDirection argument, index.js line 113
SortDirectionParam(r) ==
    IF r.viewStyle = "LIST" THEN r.currentListSortDirection ELSE JsFalse

\* the argument of fetchStories, index.js lines 110-116
FetchParams(r) ==
    [sortOption |-> r.currentStorySort,
     searchTerm |-> r.typeaheadValue,
     sortDirection |-> SortDirectionParam(r),
     status |-> r.status,
     page |-> r.currentPageToFetch]

\* the dependency list without viewStyle
FetchDepsNoViewStyle(r) ==
    <<r.currentListSortDirection, r.currentPageToFetch,
      r.currentStorySort, r.status, r.typeaheadValue>>

\* dependency list of the fetch effect, lines 117-125 (fetchStories is stable)
FetchDeps(r) ==
    <<r.viewStyle, r.currentListSortDirection, r.currentPageToFetch,
      r.currentStorySort, r.status, r.typeaheadValue>>

FetchEffect(r, s) == fetchStories(s, FetchParams(r))

\* JS a >= b with b possibly undefined (undefined converts to NaN: false)
JsGE(a, b) == IF b = Undefined THEN FALSE ELSE a >= b[1]

\* the dependency list without totalPages
AllPagesDepsNoTotal(r) == <<r.currentPageToFetch>>

\* dependency list of the allPagesLoaded effect, line 138
AllPagesDeps(r) == <<r.currentPageToFetch, r.totalPages>>

\* lines 136-138
AllPagesEffect(r, s) ==
    [s EXCEPT !.allPagesLoaded = JsGE(r.currentPageToFetch, r.totalPages)]

\* lines 146: clearExistingStoriesOrder and debounceTypeaheadValue are stable
SearchDeps(r) == <<r.typeaheadValue>>

\* lines 141-145
SearchResetEffect(r, s) ==
    IF Len(r.typeaheadValue) > 0
    THEN [clearExistingStoriesOrder(s) EXCEPT !.currentPageToFetch = 1]
    ELSE s

\* The effects of the render r, d being the render before it: each effect
\* whose dependencies changed runs, in the order of declaration, reading the
\* values of r and updating the state.
Commit(r, d) ==
    LET s1 == IF FetchDeps(r) # FetchDeps(d) THEN FetchEffect(r, r) ELSE r
        s2 == IF AllPagesDeps(r) # AllPagesDeps(d) THEN AllPagesEffect(r, s1) ELSE s1
        s3 == IF SearchDeps(r) # SearchDeps(d) THEN SearchResetEffect(r, s2) ELSE s2
    IN s3

\* Renders until the effects change nothing.
RECURSIVE Render(_, _)
Render(r, d) ==
    LET s == Commit(r, d)
    IN IF s = r THEN r ELSE Render(s, r)

\* The first render runs every effect.
Mount(r) ==
    LET s == SearchResetEffect(r, AllPagesEffect(r, FetchEffect(r, r)))
    IN Render(s, r)

\* lines 85-95 and the provider's initial state
InitialState ==
    [status |-> STORY_STATUSES[1], typeaheadValue |-> <<>>, viewStyle |-> "GRID",
     currentPageToFetch |-> 1, allPagesLoaded |-> FALSE,
     currentStorySort |-> "LAST_MODIFIED", currentListSortDirection |-> "ASC",
     isLoading |-> FALSE, storiesOrderById |-> <<>>, totalStories |-> 0,
     totalPages |-> Undefined, inFlight |-> <<>>, issued |-> 0]

NoEvent == [type |-> "mount", quiet |-> TRUE, loading |-> FALSE, calls |-> 0]

Event(t, n) ==
    [type |-> t, quiet |-> (inFlight = <<>>), loading |-> isLoading, calls |-> n]

\* the model follows a run up to MaxFetches calls of fetchStories
Fits(s) == s.issued <= MaxFetches

Handled(s, t, n) ==
    /\ Fits(s)
    /\ Install(s)
    /\ lastEvent' = Event(t, n)
    /\ UNCHANGED mediaVars

(***************************************************************************)
(* What is on screen.                                                      *)
(***************************************************************************)
\* BodyContent, lines 240-249: the view and its controls are rendered
BodyShown == ~isLoading /\ totalStories > 0

\* storiesView, lines 164-167: the scroller exists in grid view with stories
ScrollerShown == viewStyle = "GRID" /\ Len(storiesOrderById) > 0

(***************************************************************************)
(* Events.                                                                 *)
(***************************************************************************)
\* handleGetData without the isLoading guard
handleGetDataUnguarded(r, s) ==
    [s EXCEPT !.currentPageToFetch = r.currentPageToFetch + 1]

\* handleGetData, lines 170-174, of the render r, the state being s
handleGetData(r, s) ==
    IF ~r.isLoading
    THEN [s EXCEPT !.currentPageToFetch = r.currentPageToFetch + 1]
    ELSE s

\* the calls adding up, as with setCurrentPageToFetch((page) => page + 1)
RECURSIVE handleGetDataCallsAdding(_, _, _)
handleGetDataCallsAdding(r, s, n) ==
    IF n = 0 THEN s
    ELSE handleGetDataCallsAdding(r, handleGetData([r EXCEPT !.currentPageToFetch =
                                                      s.currentPageToFetch], s), n - 1)

\* n calls of the same render's handleGetData
RECURSIVE handleGetDataCalls(_, _, _)
handleGetDataCalls(r, s, n) ==
    IF n = 0 THEN s ELSE handleGetDataCalls(r, handleGetData(r, s), n - 1)

\* InfiniteScroller asks for data only while isAllDataLoaded is false (spec §4.1)
ScrollerAsks == ~allPagesLoaded

LoadMore(n) ==
    /\ ScrollerShown
    /\ ScrollerAsks
    /\ Handled(Render(handleGetDataCalls(Cur, Cur, n), Cur), "loadMore", n)

\* FloatingTab onClick, line 285
SetStatus(v) ==
    /\ v # status
    /\ Handled(Render([Cur EXCEPT !.status = v], Cur), "status", 1)

\* the debounced callback, lines 97-99
SetTypeaheadValue(v) ==
    /\ v # typeaheadValue
    /\ Handled(Render([Cur EXCEPT !.typeaheadValue = v], Cur), "search", 1)

\* handleViewStyleBarButtonSelected, lines 148-154
handleViewStyleBarButtonSelected(s) ==
    IF s.viewStyle = "LIST"
    THEN [s EXCEPT !.viewStyle = "GRID"]
    ELSE [s EXCEPT !.viewStyle = "LIST"]

ToggleViewStyle ==
    /\ BodyShown
    /\ Handled(Render(handleViewStyleBarButtonSelected(Cur), Cur), "toggle", 1)

\* BodyViewOptions handleSortChange, lines 219-223
handleSortChange(s, sort) ==
    [clearExistingStoriesOrder(s) EXCEPT !.currentPageToFetch = 1,
                                         !.currentStorySort = sort]

SortDropdown(sort) ==
    /\ BodyShown
    /\ sort # currentStorySort
    /\ Handled(Render(handleSortChange(Cur, sort), Cur), "sort", 1)

\* StoryListView handleSortChange = setCurrentStorySort, line 195
ListSort(sort) ==
    /\ BodyShown
    /\ viewStyle = "LIST"
    /\ sort # currentStorySort
    /\ Handled(Render([Cur EXCEPT !.currentStorySort = sort], Cur), "listSort", 1)

\* StoryListView handleSortDirectionChange = setListSortDirection, line 196
ListSortDirection(dir) ==
    /\ BodyShown
    /\ viewStyle = "LIST"
    /\ dir # currentListSortDirection
    /\ Handled(Render([Cur EXCEPT !.currentListSortDirection = dir], Cur),
               "direction", 1)

RemoveAt(q, i) == [j \in 1..(Len(q) - 1) |-> IF j < i THEN q[j] ELSE q[j + 1]]

\* the response to one of the fetches in flight arrives
FetchComplete(i, tp) ==
    /\ i \in 1..Len(inFlight)
    /\ LET s == fetchStoriesSuccess([Cur EXCEPT !.inFlight = RemoveAt(@, i)],
                                    inFlight[i], tp)
       IN Install(Render(s, Cur))
    /\ UNCHANGED <<lastEvent, mediaVars>>

(***************************************************************************)
(* The media3p resource adapter, getResourceFromMedia3p.                   *)
(***************************************************************************)
\* largest width of a size variant
MaxWidth == 3
\* largest number of size variants of a media record
MaxVariants == 3

\* String.prototype.toLowerCase on the letters the media types use
LowerCaseOf(c) ==
    CASE c = "I" -> "i" [] c = "M" -> "m" [] c = "A" -> "a" [] c = "G" -> "g"
      [] c = "E" -> "e" [] c = "V" -> "v" [] c = "D" -> "d" [] c = "O" -> "o"
      [] OTHER -> c

toLowerCase(str) == [i \in 1..Len(str) |-> LowerCaseOf(str[i])]

\* the type compared as written
IsImageCaseSensitive(m) == m.type = <<"i", "m", "a", "g", "e">>

\* m.type.toLowerCase() === 'image', lines 68 and 94
IsImage(m) == toLowerCase(m.type) = <<"i", "m", "a", "g", "e">>

Range(q) == {q[i] : i \in 1..Len(q)}

\* getUrls, lines 67-85: the entries go through a Map, so of several variants
\* with one imageName the last one stays; the value is the "sizes" object
\* (a function of the key) or the error thrown.
getUrls(m) ==
    IF IsImage(m)
    THEN LET u == m.imageUrls
             Last(n) == CHOOSE i \in 1..Len(u) :
                            /\ u[i].imageName = n
                            /\ \A j \in (i + 1)..Len(u) : u[j].imageName # n
         IN [threw |-> FALSE,
             value |-> [n \in {v.imageName : v \in Range(u)} |->
                           [file |-> m.name,
                            source_url |-> u[Last(n)].url,
                            mime_type |-> u[Last(n)].mimeType,
                            width |-> u[Last(n)].width,
                            height |-> u[Last(n)].height]]]
    ELSE [threw |-> TRUE, value |-> "Invalid media type."]

\* the comparator the other way round
CompareWidthsAscending(el1, el2) == el1.width - el2.width

\* the comparator of line 99, (el1, el2) => el2.width - el1.width
CompareWidths(el1, el2) == el2.width - el1.width

\* Array.prototype.sort is stable (ECMAScript 2019): e goes behind every
\* element the comparator does not order after it.
SortInsert(sorted, e) ==
    LET k == Cardinality({i \in 1..Len(sorted) : CompareWidths(sorted[i], e) <= 0})
    IN [i \in 1..(Len(sorted) + 1) |->
           IF i <= k THEN sorted[i] ELSE IF i = k + 1 THEN e ELSE sorted[i - 1]]

RECURSIVE SortFrom(_, _)
SortFrom(sorted, rest) ==
    IF rest = <<>> THEN sorted
    ELSE SortFrom(SortInsert(sorted, Head(rest)), Tail(rest))

\* m.imageUrls.sort(...), line 99
sort(imageUrls) == SortFrom(<<>>, imageUrls)

\* getFullAsset, lines 93-102: the value returned or the error thrown, and the
\* record as the call leaves it (sort orders the array in place).
getFullAsset(m) ==
    IF IsImage(m)
    THEN IF Len(m.imageUrls) = 0
         THEN [threw |-> TRUE, value |-> "No imageUrls for media resource", m |-> m]
         ELSE [threw |-> FALSE, value |-> sort(m.imageUrls)[1],
               m |-> [m EXCEPT !.imageUrls = sort(@)]]
    ELSE [threw |-> TRUE, value |-> "Invalid media type for media resource", m |-> m]

\* createResource (./createResource is not among the sources): the resource
\* carries the fields it is given.
createResource(fields) == fields

\* the attribution as m.author ? {author: {...}} : undefined would give it
AttributionOrUndefined(m) ==
    IF m.author.kind = "object"
    THEN [kind |-> "object",
          author |-> [displayName |-> m.author.displayName, url |-> m.author.url]]
    ELSE [kind |-> "undefined"]

\* m.author && {author: {...}}, lines 129-134
Attribution(m) ==
    IF m.author.kind = "object"
    THEN [kind |-> "object",
          author |-> [displayName |-> m.author.displayName, url |-> m.author.url]]
    ELSE m.author

\* getResourceFromMedia3p, lines 110-136: the outcome (a resource or the error
\* thrown) and the record as the call leaves it.
getResourceFromMedia3p(m) ==
    LET urls == getUrls(m)
        full == getFullAsset(m)
        fullAsset == full.value
    IN IF urls.threw THEN [outcome |-> [error |-> urls.value], m |-> m]
       ELSE IF full.threw THEN [outcome |-> [error |-> full.value], m |-> full.m]
       ELSE [outcome |->
                [resource |-> createResource(
                    [type |-> toLowerCase(m.type),
                     mimeType |-> fullAsset.mimeType,
                     creationDate |-> m.createTime,
                     src |-> fullAsset.url,
                     width |-> fullAsset.width,
                     height |-> fullAsset.height,
                     id |-> m.name,
                     title |-> m.description,
                     local |-> FALSE,
                     sizes |-> urls.value,
                     attribution |-> Attribution(m)])],
             m |-> full.m]

IsError(outcome) == DOMAIN outcome = {"error"}
IsResource(outcome) == DOMAIN outcome = {"resource"}

\* Inputs.
MediaTypes ==
    {<<"I", "M", "A", "G", "E">>, <<"i", "m", "a", "g", "e">>,
     <<"I", "m", "a", "g", "e">>, <<"v", "i", "d", "e", "o">>,
     <<"V", "I", "D", "E", "O">>}

\* size variants: two assets (a jpeg and a png of another shape) in every width
ImageUrls ==
    {[url |-> "https://img/a", imageName |-> "a", mimeType |-> "image/jpeg",
      width |-> w, height |-> w] : w \in 1..MaxWidth}
    \cup
    {[url |-> "https://img/b", imageName |-> "b", mimeType |-> "image/png",
      width |-> w, height |-> w + 1] : w \in 1..MaxWidth}

RECURSIVE SeqsUpTo(_, _)
SeqsUpTo(S, n) ==
    IF n = 0 THEN {<<>>}
    ELSE LET shorter == SeqsUpTo(S, n - 1)
         IN shorter \cup {Append(q, x) : q \in {p \in shorter : Len(p) = n - 1}, x \in S}

Authors ==
    {[kind |-> "undefined"], [kind |-> "null"],
     [kind |-> "object", displayName |-> "Ann", url |-> "https://ann"]}

MediaInputs ==
    {[name |-> "media/unsplash:1", type |-> t, author |-> a,
      createTime |-> "2020-05-01", description |-> "A photo", imageUrls |-> u] :
        t \in MediaTypes, a \in Authors, u \in SeqsUpTo(ImageUrls, MaxVariants)}

NoMedia ==
    [name |-> "media/unsplash:1", type |-> <<"I", "M", "A", "G", "E">>,
     author |-> [kind |-> "undefined"], createTime |-> "2020-05-01",
     description |-> "A photo", imageUrls |-> <<>>]

\* A caller holding a media record calls the adapter on it.
Normalize ==
    /\ Len(results) < MaxCalls
    /\ LET r == getResourceFromMedia3p(media)
       IN /\ results' = Append(results, r.outcome)
          /\ media' = r.m
    /\ UNCHANGED <<input, ctlVars>>

StartsAs(s) ==
    /\ status = s.status
    /\ typeaheadValue = s.typeaheadValue
    /\ viewStyle = s.viewStyle
    /\ currentPageToFetch = s.currentPageToFetch
    /\ allPagesLoaded = s.allPagesLoaded
    /\ currentStorySort = s.currentStorySort
    /\ currentListSortDirection = s.currentListSortDirection
    /\ isLoading = s.isLoading
    /\ storiesOrderById = s.storiesOrderById
    /\ totalStories = s.totalStories
    /\ totalPages = s.totalPages
    /\ inFlight = s.inFlight
    /\ issued = s.issued

Init ==
    /\ StartsAs(Mount(InitialState))
    /\ lastEvent = NoEvent
    /\ media = NoMedia /\ input = NoMedia /\ results = <<>>

Next ==
    \/ \E n \in 1..MaxCalls : LoadMore(n)
    \/ \E i \in 1..Len(STORY_STATUSES) : SetStatus(STORY_STATUSES[i])
    \/ \E v \in SearchTexts : SetTypeaheadValue(v)
    \/ ToggleViewStyle
    \/ \E option \in STORY_SORT_OPTIONS : SortDropdown(option)
    \/ \E option \in STORY_SORT_OPTIONS : ListSort(option)
    \/ \E dir \in SORT_DIRECTION : ListSortDirection(dir)
    \/ \E i \in 1..MaxFetches, tp \in 0..MaxTotalPages : FetchComplete(i, tp)

Spec == Init /\ [][Next]_vars

InitMedia ==
    /\ StartsAs(Mount(InitialState))
    /\ lastEvent = NoEvent
    /\ input \in MediaInputs
    /\ media = input
    /\ results = <<>>

NextMedia == Normalize

SpecMedia == InitMedia /\ [][NextMedia]_vars

(***************************************************************************)
(* Properties of the list controller, checked under Spec.                  *)
(***************************************************************************)
Settled == inFlight = <<>>

\* C1: after the search text changed to a non-empty value and the fetches
\* this triggered have completed, currentPageToFetch is 1 and the ordering
\* holds only what the page 1 fetch for the new text delivered.
C1_SearchStartsFresh ==
    (/\ lastEvent.type = "search"
     /\ lastEvent.quiet
     /\ Len(typeaheadValue) > 0
     /\ Settled)
    => /\ currentPageToFetch = 1
       /\ \A i \in 1..Len(storiesOrderById) :
             /\ storiesOrderById[i].searchTerm = typeaheadValue
             /\ storiesOrderById[i].page = 1

ControllerState ==
    <<status, typeaheadValue, viewStyle, currentPageToFetch, allPagesLoaded,
      currentStorySort, currentListSortDirection, storiesOrderById>>

\* C2 as claimed: every call of handleGetData adds 1 to currentPageToFetch
\* when isLoading is false, also when several calls come before the next
\* render, and changes nothing of the controller when isLoading is true.
C2_EveryCallIncrements ==
    [][\A n \in 1..MaxCalls :
          LoadMore(n) =>
              IF ~isLoading
              THEN currentPageToFetch' = currentPageToFetch + n
              ELSE UNCHANGED ControllerState]_vars

\* C2 as amended: the calls of one render's handleGetData set
\* currentPageToFetch to that render's page plus 1 when that render's
\* isLoading is false, so together they advance the page by exactly 1 however
\* many they are, and they change nothing of the controller when it is true.
C2_LoadMoreAdvancesOnce ==
    [][\A n \in 1..MaxCalls :
          LoadMore(n) =>
              IF ~isLoading
              THEN /\ currentPageToFetch' = currentPageToFetch + 1
                   /\ UNCHANGED <<status, typeaheadValue, viewStyle, currentStorySort,
                                  currentListSortDirection, storiesOrderById>>
              ELSE UNCHANGED ControllerState]_vars

C2_Witness ==
    /\ lastEvent.type = "loadMore"
    /\ lastEvent.calls = 2
    /\ ~lastEvent.loading
    /\ currentPageToFetch = 2
    /\ inFlight # <<>>
    /\ inFlight[Len(inFlight)].page = 2

\* C3: allPagesLoaded is a boolean, and it is true exactly when totalPages is
\* a number and currentPageToFetch >= totalPages.
C3_AllPagesLoaded ==
    /\ allPagesLoaded \in BOOLEAN
    /\ allPagesLoaded = (totalPages # <<>> /\ currentPageToFetch >= totalPages[1])
    /\ (totalPages = <<>> => allPagesLoaded = FALSE)
    /\ (totalPages = <<0>> => allPagesLoaded = TRUE)

C3_Witness ==
    /\ totalPages = <<0>>
    /\ allPagesLoaded
    /\ lastEvent.type # "mount"

Five ==
    <<status, currentStorySort, currentListSortDirection, typeaheadValue,
      currentPageToFetch>>

C5_OneFetchInFlight == Len(inFlight) <= 1

\* C5 as amended: a fetchStories call made while isLoading is set comes from
\* a status change or a search change; load-more, the sort controls and the
\* view toggle make none while isLoading is set.
C5_OnlyStatusAndSearchOverlap ==
    [][(issued' > issued /\ isLoading) => lastEvent'.type \in {"status", "search"}]_vars

C5_Witness ==
    /\ Len(inFlight) >= 2
    /\ lastEvent.type = "status"
    /\ lastEvent.loading

\* C6 as claimed: the view toggle, and the completion of what it triggered,
\* leave the ordering and status, sort option, search text and page unchanged.
C6_ToggleKeepsOrder ==
    [][/\ ToggleViewStyle =>
             UNCHANGED <<storiesOrderById, status, currentStorySort,
                         typeaheadValue, currentPageToFetch>>
       /\ (lastEvent.type = "toggle" /\ lastEvent.quiet /\ lastEvent' = lastEvent) =>
             UNCHANGED <<storiesOrderById, status, currentStorySort,
                         typeaheadValue, currentPageToFetch>>]_vars

\* C6 as amended: the toggle changes viewStyle alone among the controller's
\* state and leaves the ordering as it is, and it makes one fetchStories call
\* for the current page, with sortDirection the list direction when the new
\* view is the list and false when it is the grid.
C6_ToggleRefetches ==
    [][ToggleViewStyle =>
          /\ viewStyle' # viewStyle
          /\ UNCHANGED <<storiesOrderById, status, currentStorySort, typeaheadValue,
                         currentPageToFetch, currentListSortDirection>>
          /\ inFlight' = Append(inFlight,
                [sortOption |-> currentStorySort,
                 searchTerm |-> typeaheadValue,
                 sortDirection |-> IF viewStyle = "GRID"
                                   THEN currentListSortDirection ELSE JsFalse,
                 status |-> status,
                 page |-> currentPageToFetch])]_vars

C6_Witness ==
    /\ lastEvent.type = "toggle"
    /\ viewStyle = "LIST"
    /\ storiesOrderById # <<>>
    /\ Len(inFlight) = 1
    /\ inFlight[1].sortDirection = currentListSortDirection

C8_NormalizeIsPure ==
    /\ media = input
    /\ \A i, j \in 1..Len(results) : results[i] = results[j]

\* the first variant of widest width, in the order of the record handed over
WidestFirst(u) ==
    CHOOSE k \in 1..Len(u) :
        /\ \A j \in 1..Len(u) : u[j].width <= u[k].width
        /\ \A j \in 1..(k - 1) : u[j].width < u[k].width

\* C9: a resource made from an image with variants has the src, width, height
\* and mimeType of the first of its widest variants.
C9_FullAssetIsWidestFirst ==
    \A i \in 1..Len(results) :
        (IsResource(results[i]) /\ Len(input.imageUrls) > 0) =>
            LET full == input.imageUrls[WidestFirst(input.imageUrls)]
                res == results[i].resource
            IN /\ res.src = full.url
               /\ res.width = full.width
               /\ res.height = full.height
               /\ res.mimeType = full.mimeType

C9_Witness ==
    /\ Len(results) >= 1
    /\ IsResource(results[1])
    /\ LET u == input.imageUrls
       IN \E i, j \in 1..Len(u) :
             /\ 1 < i /\ i < j
             /\ u[i].width = u[j].width
             /\ u[i].url # u[j].url
             /\ u[1].width < u[i].width
             /\ results[1].resource.src = u[i].url

ImageSpellings ==
    {<<"I", "M", "A", "G", "E">>, <<"i", "m", "a", "g", "e">>,
     <<"I", "m", "a", "g", "e">>}

\* C10: a call ends in an error, and yields no resource, exactly when the type
\* is not a spelling of image or the image has no variants.
C10_ErrorsExactly ==
    \A i \in 1..Len(results) :
        /\ IsError(results[i]) # IsResource(results[i])
        /\ IsError(results[i]) <=>
              (input.type \notin ImageSpellings \/ Len(input.imageUrls) = 0)

C10_Witness ==
    /\ Len(results) = 2
    /\ input.type = <<"I", "m", "a", "g", "e">>
    /\ Len(input.imageUrls) > 0
    /\ IsResource(results[1])
    /\ IsResource(results[2])

\* reading the attribution of a resource gives undefined
NoAttribution(res) ==
    "attribution" \notin DOMAIN res \/ res.attribution.kind = "undefined"

\* what the claims expect of the attribution when the author exists
AuthorCopied(res) ==
    /\ "attribution" \in DOMAIN res
    /\ res.attribution =
          [kind |-> "object",
           author |-> [displayName |-> input.author.displayName,
                       url |-> input.author.url]]

\* C11 as claimed: the resource has attribution {author: {displayName, url}}
\* copied from the author when the author exists, and no attribution (not one
\* that is null) when the author is null or undefined.
C11_AttributionOrAbsent ==
    \A i \in 1..Len(results) :
        IsResource(results[i]) =>
            IF input.author.kind = "object"
            THEN AuthorCopied(results[i].resource)
            ELSE NoAttribution(results[i].resource)

\* C11 as amended: the attribution is {author: {displayName, url}} copied from
\* the author when the author exists, undefined when the author is undefined,
\* and present with the value null when the author is null.
C11_AttributionFollowsAuthor ==
    \A i \in 1..Len(results) :
        IsResource(results[i]) =>
            LET res == results[i].resource
            IN CASE input.author.kind = "object" -> AuthorCopied(res)
                 [] input.author.kind = "undefined" ->
                        /\ "attribution" \in DOMAIN res
                        /\ res.attribution = [kind |-> "undefined"]
                 [] input.author.kind = "null" ->
                        /\ "attribution" \in DOMAIN res
                        /\ res.attribution = [kind |-> "null"]

C11_Witness ==
    /\ Len(results) >= 1
    /\ IsResource(results[1])
    /\ input.author.kind = "null"
    /\ results[1].resource.attribution.kind = "null"

====
